---- MODULE Spec2Model ----
(***************************************************************************)
(* Gomoku match engine (src/engine.py): the GomokuGame state machine, the  *)
(* run_game driver with its fault handling, and the tournament loop of     *)
(* main.  Strategies are external callables; they are modelled by the      *)
(* values a call can produce.                                              *)
(***************************************************************************)
EXTENDS Integers, Sequences, FiniteSets, TLC

\* ---------------------------------------------------------------- bounds
\* side of the large board (args.board_size); the code's default is 15
N == 6
\* side of the small board on which whole tournaments are explored
SmallSize == 2
\* largest number of rounds (args.rounds) explored
MaxRounds == 2
\* largest number of moves in a game served to the replay page
MaxMoves == 3

\* -------------------------------------------------------- program constants
\* engine.py:73  "if count == 5"
WinLen == 5

\* Python's None
None == "none"

Colors == {"black", "white"}

\* engine.py:143 / 49  other colour
other_color(c) == IF c = "black" THEN "white" ELSE "black"

\* engine.py:40  stone value of a colour
stone_of(c) == IF c = "black" THEN 1 ELSE 2

\* engine.py:54
directions == {<<1, 0>>, <<0, 1>>, <<1, 1>>, <<1, -1>>}

\* ------------------------------------------------------------ GomokuGame
\* engine.py:18-29  a freshly constructed game of side n
GomokuGame(n) ==
  [board_size     |-> n,
   board          |-> [x \in 0..(n - 1) |-> [y \in 0..(n - 1) |-> 0]],
   current_player |-> "black",
   winner         |-> None,
   history        |-> <<>>]

\* engine.py:33 / 61 / 68  0 <= x < board_size and 0 <= y < board_size
in_bounds(g, x, y) ==
  /\ 0 <= x /\ x < g.board_size
  /\ 0 <= y /\ y < g.board_size

\* engine.py:61-64 and 68-71  one while loop: stones of `stone` met walking
\* from (nx, ny) in steps of (dx, dy) until the edge or another value
RECURSIVE count_from(_, _, _, _, _, _)
count_from(g, nx, ny, dx, dy, stone) ==
  IF in_bounds(g, nx, ny) /\ g.board[nx][ny] = stone
  THEN 1 + count_from(g, nx + dx, ny + dy, dx, dy, stone)
  ELSE 0

\* engine.py:57-71  count for one direction pair through (x, y)
axis_count(g, x, y, d, stone) ==
  1 + count_from(g, x + d[1], y + d[2], d[1], d[2], stone)
    + count_from(g, x - d[1], y - d[2], 0 - d[1], 0 - d[2], stone)

\* a win test that accepts overlines
check_win_AtLeastFive(g, x, y, stone) ==
  \E d \in directions : axis_count(g, x, y, d, stone) >= WinLen

\* a win check that looks along the two board axes only
check_win_NoDiagonals(g, x, y, stone) ==
  \E d \in {<<1, 0>>, <<0, 1>>} : axis_count(g, x, y, d, stone) = WinLen

\* engine.py:52-76  GomokuGame._check_win
check_win(g, x, y, stone) ==
  \E d \in directions : axis_count(g, x, y, d, stone) = WinLen

\* engine.py:78-83  GomokuGame.is_full
is_full(g) ==
  \A x \in 0..(g.board_size - 1) : \A y \in 0..(g.board_size - 1) :
    g.board[x][y] # 0

\* a copy of the outer list only: every row of the grid handed out is the
\* row object of the live board (return list(self.board))
get_board_copy_RowsShared(g) ==
  [cells |-> g.board, shared_rows |-> 0..(g.board_size - 1)]

\* engine.py:85-87  GomokuGame.get_board_copy: the grid returned, and the
\* rows of it that are the same list objects as rows of the live board
\* ([row[:] for row in self.board] builds every row anew)
get_board_copy(g) == [cells |-> g.board, shared_rows |-> {}]

\* engine.py:138-139  the live game once move_fn(board_copy, color) has
\* returned or raised, the callee having stored value w[3] at
\* board_copy[w[1]][w[2]] for each w in writes: a store reaches the live
\* board through a shared row and nowhere else
after_call(g, copy, writes) ==
  [g EXCEPT !.board =
     [x \in 0..(g.board_size - 1) |-> [y \in 0..(g.board_size - 1) |->
        IF x \in copy.shared_rows /\ \E w \in writes : w[1] = x /\ w[2] = y
        THEN (CHOOSE w \in writes : w[1] = x /\ w[2] = y)[3]
        ELSE g.board[x][y]]]]

\* the accepting part of make_move with the turn handed over before the win
\* test, so that the winner recorded is the player who did not move
apply_move_SwitchFirst(g, x, y) ==
  LET stone  == stone_of(g.current_player)
      placed == [g EXCEPT !.board[x][y] = stone,
                          !.history = Append(@, <<g.current_player, x, y>>),
                          !.current_player = other_color(@)]
  IN  IF check_win(placed, x, y, stone)
      THEN [placed EXCEPT !.winner = placed.current_player]
      ELSE placed

\* engine.py:40-50  the accepting part of make_move
apply_move(g, x, y) ==
  LET stone  == stone_of(g.current_player)
      placed == [g EXCEPT !.board[x][y] = stone,
                          !.history = Append(@, <<g.current_player, x, y>>)]
  IN  IF check_win(placed, x, y, stone)
      THEN [placed EXCEPT !.winner = g.current_player]
      ELSE [placed EXCEPT !.current_player = other_color(g.current_player)]

\* make_move without the "already won" test
make_move_NoWinnerTest(g, x, y) ==
  IF ~in_bounds(g, x, y) THEN [ok |-> FALSE, game |-> g]
  ELSE IF g.board[x][y] # 0 THEN [ok |-> FALSE, game |-> g]
  ELSE [ok |-> TRUE, game |-> apply_move(g, x, y)]

\* make_move that records the move before it looks at the cell
make_move_AppendFirst(g, x, y) ==
  IF ~in_bounds(g, x, y) THEN [ok |-> FALSE, game |-> g]
  ELSE IF g.board[x][y] # 0
       THEN [ok |-> FALSE,
             game |-> [g EXCEPT !.history =
                                  Append(@, <<g.current_player, x, y>>)]]
  ELSE IF g.winner # None THEN [ok |-> FALSE, game |-> g]
  ELSE [ok |-> TRUE, game |-> apply_move(g, x, y)]

\* make_move that hands the turn over even when it rejects the cell
make_move_FlipOnReject(g, x, y) ==
  IF ~in_bounds(g, x, y) THEN [ok |-> FALSE, game |-> g]
  ELSE IF g.board[x][y] # 0
       THEN [ok |-> FALSE,
             game |-> [g EXCEPT !.current_player = other_color(@)]]
  ELSE IF g.winner # None THEN [ok |-> FALSE, game |-> g]
  ELSE [ok |-> TRUE, game |-> apply_move(g, x, y)]

\* make_move without the occupancy test
make_move_NoOccupiedTest(g, x, y) ==
  IF ~in_bounds(g, x, y) THEN [ok |-> FALSE, game |-> g]
  ELSE IF g.winner # None THEN [ok |-> FALSE, game |-> g]
  ELSE [ok |-> TRUE, game |-> apply_move(g, x, y)]

\* engine.py:31-50  GomokuGame.make_move: the return value and the game after
make_move(g, x, y) ==
  IF ~in_bounds(g, x, y) THEN [ok |-> FALSE, game |-> g]
  ELSE IF g.board[x][y] # 0 THEN [ok |-> FALSE, game |-> g]
  ELSE IF g.winner # None THEN [ok |-> FALSE, game |-> g]
  ELSE [ok |-> TRUE, game |-> apply_move(g, x, y)]

\* ------------------------------------------------------------- strategies
\* A strategy is the callable load_player_module returns; engine.py:139
\* calls it as move_fn(board_copy, color).  One call either raises or returns
\* a value.  A returned value is a list/tuple of elements, or something else
\* (is_seq = FALSE, e.g. None or an int).  An element is an int, a float
\* v + 1/2, or an object int() rejects (t = "other", e.g. None or "a").
IntElem(v)   == [t |-> "int", v |-> v]
HalfElem(v)  == [t |-> "float", v |-> v]
OtherElem    == [t |-> "other", v |-> 0]

Returns(elems) ==
  [raises |-> None, is_seq |-> TRUE, elems |-> elems, writes |-> {}]
ReturnsNonSeq  ==
  [raises |-> None, is_seq |-> FALSE, elems |-> <<>>, writes |-> {}]
Raises(cls)    ==
  [raises |-> cls, is_seq |-> FALSE, elems |-> <<>>, writes |-> {}]

\* the same outcome of a call that also stored into the grid it was given
Writing(out, writes) == [out EXCEPT !.writes = writes]

\* engine.py:147  int(move[k]) succeeds
can_int(e) == e.t # "other"

\* engine.py:147  int(move[k]): identity on ints, truncation toward zero on
\* floats (int(-0.5) = 0, int(2.5) = 2)
python_int(e) ==
  IF e.t = "int" THEN e.v
  ELSE IF e.v >= 0 THEN e.v ELSE e.v + 1

\* the strategies explored: "filler" is deterministic, the others play
\* anywhere on one line of the board
Lines == {"row", "col", "diag", "anti"}
Kinds == Lines \cup {"filler"}

AllCells(n) == (0..(n - 1)) \X (0..(n - 1))

line_cells(kind, n) ==
  CASE kind = "row"  -> {<<0, y>> : y \in 0..(n - 1)}
    [] kind = "col"  -> {<<x, 0>> : x \in 0..(n - 1)}
    [] kind = "diag" -> {<<x, x>> : x \in 0..(n - 1)}
    [] kind = "anti" -> {<<x, n - 1 - x>> : x \in 0..(n - 1)}

on_line(n, c) == \E k \in Lines : c \in line_cells(k, n)

\* the filler's preference: cells off the four lines first, then by
\* anti-diagonal, then by row
filler_rank(n, c) ==
  (IF on_line(n, c) THEN 2 * n * n ELSE 0) + (c[1] + c[2]) * n + c[1]

empty_cells(board, n) == {c \in AllCells(n) : board[c[1]][c[2]] = 0}

\* the filler's move: its preferred empty cell, and (0, 0) on a full board
\* (the placeholder of src/main.py:45)
filler_cell(board, n) ==
  LET E == empty_cells(board, n)
  IN  IF E = {} THEN <<0, 0>>
      ELSE CHOOSE c \in E : \A d \in E : filler_rank(n, c) <= filler_rank(n, d)

\* the cells a well-behaved call of a strategy of this kind can name
strategy_cells(kind, board, n) ==
  IF kind = "filler" THEN {filler_cell(board, n)} ELSE line_cells(kind, n)

\* coordinates make_move rejects or accepts by accident: beyond each edge,
\* and the cell of the latest stone
stray_coords(g) ==
  {<<0 - 1, 0>>, <<0, g.board_size>>}
    \cup (IF g.history = <<>> THEN {}
          ELSE LET h == g.history[Len(g.history)] IN {<<h[2], h[3]>>})

\* what a strategy of this kind stores into the grid it is given before it
\* answers: the filler tries its move out on the grid (its own stone on its
\* preferred cell) and takes the latest stone off it; a line player stores
\* nothing
grid_scribble(kind, g) ==
  IF kind # "filler" THEN {}
  ELSE LET c == filler_cell(g.board, g.board_size)
       IN  {<<c[1], c[2], stone_of(g.current_player)>>}
             \cup (IF g.history = <<>> THEN {}
                   ELSE LET h == g.history[Len(g.history)]
                        IN  {<<h[2], h[3], 0>>} \ {<<c[1], c[2], 0>>})

\* every outcome of one call move_fn(board_copy, color) by a strategy of
\* this kind while the game is g
strategy_outcomes(kind, g) ==
  {Writing(o, grid_scribble(kind, g)) : o \in
     {Returns(<<IntElem(c[1]), IntElem(c[2])>>) :
         c \in strategy_cells(kind, get_board_copy(g).cells, g.board_size)
               \cup stray_coords(g)}
     \cup {Returns(<<HalfElem(0 - 1), HalfElem(0)>>),
           Returns(<<OtherElem, OtherElem>>),
           Returns(<<IntElem(0), IntElem(0), IntElem(0)>>),
           ReturnsNonSeq,
           Raises("Exception"),
           Raises("BaseException")}}

\* ------------------------------------------------- the evaluator (main.py)
\* main.py:66-70 and 73-77  one while loop of is_winning_move: stones of
\* `stone` met walking the grid from (nx, ny) in steps of (dx, dy)
RECURSIVE stones_from(_, _, _, _, _, _, _)
stones_from(board, n, nx, ny, dx, dy, stone) ==
  IF 0 <= nx /\ nx < n /\ 0 <= ny /\ ny < n /\ board[nx][ny] = stone
  THEN 1 + stones_from(board, n, nx + dx, ny + dy, dx, dy, stone)
  ELSE 0

\* a win test of the evaluator that accepts runs longer than five
is_winning_move_AtLeastFive(board, x, y, stone, n) ==
  \E d \in directions :
    1 + stones_from(board, n, x + d[1], y + d[2], d[1], d[2], stone)
      + stones_from(board, n, x - d[1], y - d[2], 0 - d[1], 0 - d[2], stone)
      >= 5

\* main.py:58-82  is_winning_move
is_winning_move(board, x, y, stone, n) ==
  \E d \in directions :
    1 + stones_from(board, n, x + d[1], y + d[2], d[1], d[2], stone)
      + stones_from(board, n, x - d[1], y - d[2], 0 - d[1], 0 - d[2], stone)
      = 5

\* a scan with y outer and x inner
scan_rank_ColumnFirst(c, n) == c[2] * n + c[1]

\* main.py:50-51  position of a cell in the scan, x outer, y inner
scan_rank(c, n) == c[1] * n + c[2]

\* main.py:48-55  find_winning_move: the first empty cell of the scan at
\* which is_winning_move holds, as a set of one cell; the empty set stands
\* for the None returned when there is no such cell
find_winning_move(board, stone, n) ==
  LET W == {c \in AllCells(n) :
              board[c[1]][c[2]] = 0
                /\ is_winning_move(board, c[1], c[2], stone, n)}
  IN  {c \in W : \A d \in W : scan_rank(c, n) <= scan_rank(d, n)}

\* main.py:165-177 and 180-191  one while loop of count_line: it passes the
\* stones of my_stone and stops at the first other cell, which counts as an
\* opponent stone or as an open end
line_side(board, n, x, y, dx, dy, my_stone, opp_stone) ==
  LET k  == stones_from(board, n, x + dx, y + dy, dx, dy, my_stone)
      ex == x + (k + 1) * dx
      ey == y + (k + 1) * dy
  IN  IF ~(0 <= ex /\ ex < n /\ 0 <= ey /\ ey < n)
      THEN [my_count |-> k, opp_count |-> 0, open_ends |-> 0]
      ELSE IF board[ex][ey] = opp_stone
      THEN [my_count |-> k, opp_count |-> 1, open_ends |-> 0]
      ELSE [my_count |-> k, opp_count |-> 0, open_ends |-> 1]

\* main.py:159-193  count_line
count_line(board, x, y, dx, dy, my_stone, opp_stone, n) ==
  LET pos == line_side(board, n, x, y, dx, dy, my_stone, opp_stone)
      neg == line_side(board, n, x, y, 0 - dx, 0 - dy, my_stone, opp_stone)
  IN  [my_count  |-> pos.my_count + neg.my_count,
       opp_count |-> pos.opp_count + neg.opp_count,
       open_ends |-> pos.open_ends + neg.open_ends]

\* main.py:135-144  the offensive part of what one direction adds
own_line_score(l) ==
  IF l.my_count >= 4 THEN 10000
  ELSE IF l.my_count = 3 /\ l.open_ends = 2 THEN 1000
  ELSE IF l.my_count = 3 THEN 100
  ELSE IF l.my_count = 2 /\ l.open_ends = 2 THEN 50
  ELSE IF l.my_count = 2 THEN 10
  ELSE 0

\* main.py:147-154  the defensive part of what one direction adds
opp_line_score(l) ==
  IF l.opp_count >= 4 THEN 5000
  ELSE IF l.opp_count = 3 /\ l.open_ends = 2 THEN 500
  ELSE IF l.opp_count = 3 THEN 50
  ELSE IF l.opp_count = 2 /\ l.open_ends = 2 THEN 25
  ELSE 0

\* main.py:135-154  what one direction adds to the score
line_score(l) == own_line_score(l) + opp_line_score(l)

\* Python's abs
abs(v) == IF v >= 0 THEN v ELSE 0 - v

\* main.py:121-156  evaluate_position
evaluate_position(board, x, y, my_stone, opp_stone, n) ==
  LET center   == n \div 2
      distance == abs(x - center) + abs(y - center)
      score(dx, dy) ==
        line_score(count_line(board, x, y, dx, dy, my_stone, opp_stone, n))
  IN  (IF 10 - distance > 0 THEN 10 - distance ELSE 0)
        + score(1, 0) + score(0, 1) + score(1, 1) + score(1, 0 - 1)

\* main.py:108-118  has_neighbor
has_neighbor(board, x, y, n) ==
  \E dx \in (0 - 2)..2 : \E dy \in (0 - 2)..2 :
    /\ ~(dx = 0 /\ dy = 0)
    /\ 0 <= x + dx /\ x + dx < n /\ 0 <= y + dy /\ y + dy < n
    /\ board[x + dx][y + dy] # 0

\* find_best_move without the test that the cell is empty
find_best_move_AnyCell(board, my_stone, opp_stone, n) ==
  LET near == {c \in AllCells(n) : has_neighbor(board, c[1], c[2], n)}
      score == [c \in near |->
                  evaluate_position(board, c[1], c[2], my_stone, opp_stone, n)]
  IN  {c \in near : \A d \in near : score[d] <= score[c]}

\* find_best_move that keeps only the first cell reaching the best score
find_best_move_FirstOnly(board, my_stone, opp_stone, n) ==
  LET near == {c \in AllCells(n) :
                 board[c[1]][c[2]] = 0 /\ has_neighbor(board, c[1], c[2], n)}
      score == [c \in near |->
                  evaluate_position(board, c[1], c[2], my_stone, opp_stone, n)]
      best  == {c \in near : \A d \in near : score[d] <= score[c]}
  IN  {c \in best : \A d \in best : scan_rank(c, n) <= scan_rank(d, n)}

\* main.py:85-105  find_best_move: the cells random.choice can return, the
\* empty cells near a stone whose score is the highest; none when no empty
\* cell is near a stone (the function then returns None)
find_best_move(board, my_stone, opp_stone, n) ==
  LET near == {c \in AllCells(n) :
                 board[c[1]][c[2]] = 0 /\ has_neighbor(board, c[1], c[2], n)}
      score == [c \in near |->
                  evaluate_position(board, c[1], c[2], my_stone, opp_stone, n)]
  IN  {c \in near : \A d \in near : score[d] <= score[c]}

\* a fallback that does not look at the centre first
fallback_moves_AnyEmpty(board, n) ==
  IF empty_cells(board, n) # {} THEN empty_cells(board, n) ELSE {<<0, 0>>}

\* main.py:39-45  the fallback of get_move: the centre when it is empty,
\* else any empty cell, else (0, 0)
fallback_moves(board, n) ==
  LET center == n \div 2
  IN  IF board[center][center] = 0 THEN {<<center, center>>}
      ELSE IF empty_cells(board, n) # {} THEN empty_cells(board, n)
      ELSE {<<0, 0>>}

\* get_move that goes to the scoring without looking for a cell to block
get_move_NoBlock(board, color) ==
  LET n        == Cardinality(DOMAIN board)
      my_stone == IF color = "black" THEN 1 ELSE 2
      opp_stone == IF color = "black" THEN 2 ELSE 1
      win_move == find_winning_move(board, my_stone, n)
      best     == find_best_move(board, my_stone, opp_stone, n)
  IN  IF win_move # {} THEN win_move
      ELSE IF best # {} THEN best
      ELSE fallback_moves(board, n)

\* main.py:10-45  get_move: the cells a call can return (one cell, or the
\* cells random.choice draws from)
get_move(board, color) ==
  LET n         == Cardinality(DOMAIN board)
      my_stone  == IF color = "black" THEN 1 ELSE 2
      opp_stone == IF color = "black" THEN 2 ELSE 1
      win_move   == find_winning_move(board, my_stone, n)
      block_move == find_winning_move(board, opp_stone, n)
      best       == find_best_move(board, my_stone, opp_stone, n)
  IN  IF win_move # {} THEN win_move
      ELSE IF block_move # {} THEN block_move
      ELSE IF best # {} THEN best
      ELSE fallback_moves(board, n)

\* main.py:45, 105  the draws of random.choice followed in a whole match:
\* every cell of the list on a board too small for a five, the first and
\* the last cell of the list on a larger board
draws(S, n) ==
  IF n < WinLen THEN S
  ELSE {c \in S : \/ \A d \in S : scan_rank(c, n) <= scan_rank(d, n)
                  \/ \A d \in S : scan_rank(d, n) <= scan_rank(c, n)}

\* engine.py:138-139  every outcome of one call move_fn(board_copy, color)
\* while the game is g: for the strategy file src/main.py (kind
\* "evaluator") what its get_move computes from the copy, for the other
\* kinds the outcomes listed above
move_fn_outcomes(kind, g) ==
  IF kind = "evaluator"
  THEN {Returns(<<IntElem(c[1]), IntElem(c[2])>>) :
          c \in draws(get_move(get_board_copy(g).cells, g.current_player),
                      g.board_size)}
  ELSE strategy_outcomes(kind, g)

\* ------------------------------------------------------------------ state
VARIABLES
  args,            \* engine.py:202-208  the parsed command line
  i,               \* engine.py:217      rounds completed by main
  scores,          \* engine.py:210
  logs,            \* engine.py:170-198  the log files written so far
  module_counter,  \* engine.py:90       _module_counter
  pc,              \* where the program is
  players,         \* engine.py:124-127  colour -> player name
  game,            \* engine.py:129      the GomokuGame of the match
  move_count,      \* engine.py:132
  result,          \* engine.py:218      the dict run_game returned
  invocations,     \* calls of move_fn made in the match (engine.py:139)
  fault,           \* the fault the latest call of move_fn ended in, if any
  last_call,       \* whether make_move was called directly, and what
                   \* the latest such call returned
  invoked,         \* engine.py:135  player_name of the latest call of move_fn
  grid_writes,     \* what the latest call of move_fn stored into its grid
  evaluated        \* main.py:10  a call get_move(board, color) made on its
                   \* own: its arguments, the cells it could return and
                   \* the cell it returned
VARIABLES
  viewer           \* visualizer.py:438-442 and the page: the script's globals
                   \* currentGame, currentMoveIndex, isPlaying, playInterval,
                   \* the stones in the .cell elements of #board, the text of
                   \* #move-counter, and the /api/game responses awaited

vars == <<args, i, scores, logs, module_counter, pc, players, game,
          move_count, result, invocations, fault, last_call, invoked,
          grid_writes, evaluated, viewer>>

PlayerNames == {"player1", "player2"}

other_name(p) == IF p = "player1" THEN "player2" ELSE "player1"

NoPlayers == [black |-> None, white |-> None]

NoResult ==
  [winner |-> None, error |-> None, has_players |-> FALSE,
   players |-> NoPlayers, has_history |-> FALSE, history |-> <<>>]

NoCall == [called |-> FALSE, ok |-> FALSE]

NoEvaluation ==
  [called |-> FALSE, board |-> <<>>, color |-> None, choices |-> {},
   move |-> <<>>]

\* a strategy file that loads and one that does not (engine.py:93-107)
Loadable(kind) == [kind |-> kind, loads |-> TRUE]
Broken         == [kind |-> "filler", loads |-> FALSE]

\* the pairs of strategy files explored: at least one side is the filler
PlayerPairs ==
  {<<Loadable(a), Loadable(b)>> : a \in Kinds, b \in {"filler"}}
  \cup {<<Loadable(a), Loadable(b)>> : a \in {"filler"}, b \in Kinds}
  \cup {<<Broken, Loadable("filler")>>, <<Loadable("filler"), Broken>>,
        <<Broken, Broken>>}

Args(rounds, n, out, pair) ==
  [rounds |-> rounds, board_size |-> n, output_dir |-> out,
   player1 |-> pair[1], player2 |-> pair[2]]

\* the pairs without a line player
FillerPairs == {q \in PlayerPairs : q[1].kind = "filler" /\ q[2].kind = "filler"}

\* the command lines explored: whole tournaments on the small board (with
\* log files for the filler pairs, which keeps the set of log directories
\* small), one round on the smallest board that can hold a five, and one
\* round of the two fillers on the large board
CommandLines ==
  {Args(r, SmallSize, FALSE, pair) :
      r \in 1..MaxRounds, pair \in PlayerPairs}
  \cup {Args(r, SmallSize, TRUE, pair) :
      r \in 1..MaxRounds, pair \in FillerPairs}
  \cup {Args(1, WinLen, out, pair) : out \in BOOLEAN, pair \in PlayerPairs}
  \cup {Args(1, N, TRUE, <<Loadable("filler"), Loadable("filler")>>)}

\* the games explored through direct calls of make_move
DirectGames ==
  {Args(1, n, FALSE, pair) :
      n \in {SmallSize, WinLen, N},
      pair \in {q \in PlayerPairs : q[1].loads /\ q[2].loads}}

\* the load phase awarding the match to the side whose file did not load
load_players_AwardsFailingSide(a) ==
  IF ~a.player1.loads
  THEN [ok |-> FALSE, loads |-> 1,
        result |-> [NoResult EXCEPT !.winner = "player1",
                                    !.error = "load_player1"]]
  ELSE IF ~a.player2.loads
  THEN [ok |-> FALSE, loads |-> 2,
        result |-> [NoResult EXCEPT !.winner = "player2",
                                    !.error = "load_player2"]]
  ELSE [ok |-> TRUE, loads |-> 2, result |-> NoResult]

\* engine.py:112-121  the two load_player_module calls of run_game, player1
\* first: whether both succeeded, how many were made, and the result
\* returned when one failed (a dict without "players" and "history")
load_players(a) ==
  IF ~a.player1.loads
  THEN [ok |-> FALSE, loads |-> 1,
        result |-> [NoResult EXCEPT !.winner = "player2",
                                    !.error = "load_player1"]]
  ELSE IF ~a.player2.loads
  THEN [ok |-> FALSE, loads |-> 2,
        result |-> [NoResult EXCEPT !.winner = "player1",
                                    !.error = "load_player2"]]
  ELSE [ok |-> TRUE, loads |-> 2, result |-> NoResult]

\* the player of the colour that is not to move
player_to_call_Waiting(g, pl) == pl[other_color(g.current_player)]

\* engine.py:135-136  the player whose move_fn the iteration calls
player_to_call(g, pl) == pl[g.current_player]

\* engine.py:131
max_moves(g) == g.board_size * g.board_size

\* engine.py:134  the while condition
loop_continues(g, mc) == g.winner = None /\ mc < max_moves(g)

\* engine.py:143-145, 151-153, 159-161  the result of a fault by the player
\* to move in game g
fault_result(g, pl, kind) ==
  [winner |-> pl[other_color(g.current_player)], error |-> kind,
   has_players |-> TRUE, players |-> pl,
   has_history |-> FALSE, history |-> <<>>]

\* the result after the loop with the full board tested before the winner
final_result_DrawWhenFull(g, pl) ==
  IF is_full(g) \/ g.winner = None
  THEN [winner |-> "draw", error |-> None, has_players |-> TRUE,
        players |-> pl, has_history |-> TRUE, history |-> g.history]
  ELSE [winner |-> pl[g.winner], error |-> None, has_players |-> TRUE,
        players |-> pl, has_history |-> TRUE, history |-> g.history]

\* engine.py:163-167  the result after the loop
final_result(g, pl) ==
  IF g.winner # None
  THEN [winner |-> pl[g.winner], error |-> None, has_players |-> TRUE,
        players |-> pl, has_history |-> TRUE, history |-> g.history]
  ELSE [winner |-> "draw", error |-> None, has_players |-> TRUE,
        players |-> pl, has_history |-> TRUE, history |-> g.history]

\* one iteration of the while loop that asks again after a rejected cell
\* instead of returning
one_turn_RetryOnInvalidMove(g0, mc, pl, out) ==
  LET g == after_call(g0, get_board_copy(g0), out.writes)
  IN
  IF out.raises = "BaseException"
  THEN [pc |-> "crashed", game |-> g, move_count |-> mc,
        result |-> NoResult, fault |-> "uncaught"]
  ELSE IF out.raises = "Exception"
  THEN [pc |-> "returned", game |-> g, move_count |-> mc,
        result |-> fault_result(g, pl, "exception"), fault |-> "exception"]
  ELSE IF ~out.is_seq \/ Len(out.elems) # 2
  THEN [pc |-> "returned", game |-> g, move_count |-> mc,
        result |-> fault_result(g, pl, "format"), fault |-> "format"]
  ELSE IF ~can_int(out.elems[1]) \/ ~can_int(out.elems[2])
  THEN [pc |-> "returned", game |-> g, move_count |-> mc,
        result |-> fault_result(g, pl, "exception"), fault |-> "coerce"]
  ELSE LET r == make_move(g, python_int(out.elems[1]),
                             python_int(out.elems[2]))
       IN  IF ~r.ok
           THEN [pc |-> "playing", game |-> r.game, move_count |-> mc,
                 result |-> NoResult, fault |-> "invalid_move"]
           ELSE [pc |-> "playing", game |-> r.game, move_count |-> mc + 1,
                 result |-> NoResult, fault |-> None]

\* one iteration of the while loop without "move_count += 1"
one_turn_NoCount(g0, mc, pl, out) ==
  LET g == after_call(g0, get_board_copy(g0), out.writes)
  IN
  IF out.raises = "BaseException"
  THEN [pc |-> "crashed", game |-> g, move_count |-> mc,
        result |-> NoResult, fault |-> "uncaught"]
  ELSE IF out.raises = "Exception"
  THEN [pc |-> "returned", game |-> g, move_count |-> mc,
        result |-> fault_result(g, pl, "exception"), fault |-> "exception"]
  ELSE IF ~out.is_seq \/ Len(out.elems) # 2
  THEN [pc |-> "returned", game |-> g, move_count |-> mc,
        result |-> fault_result(g, pl, "format"), fault |-> "format"]
  ELSE IF ~can_int(out.elems[1]) \/ ~can_int(out.elems[2])
  THEN [pc |-> "returned", game |-> g, move_count |-> mc,
        result |-> fault_result(g, pl, "exception"), fault |-> "coerce"]
  ELSE LET r == make_move(g, python_int(out.elems[1]),
                             python_int(out.elems[2]))
       IN  IF ~r.ok
           THEN [pc |-> "returned", game |-> r.game, move_count |-> mc,
                 result |-> fault_result(r.game, pl, "invalid_move"),
                 fault |-> "invalid_move"]
           ELSE [pc |-> "playing", game |-> r.game, move_count |-> mc,
                 result |-> NoResult, fault |-> None]

\* engine.py:137-161  one iteration of the while loop on game g0, given
\* what the call of move_fn produced: where the program goes, the game, the
\* move count, the result returned (if any) and the fault met (if any)
one_turn(g0, mc, pl, out) ==
  LET g == after_call(g0, get_board_copy(g0), out.writes)
  IN
  IF out.raises = "BaseException"
  THEN [pc |-> "crashed", game |-> g, move_count |-> mc,
        result |-> NoResult, fault |-> "uncaught"]
  ELSE IF out.raises = "Exception"
  THEN [pc |-> "returned", game |-> g, move_count |-> mc,
        result |-> fault_result(g, pl, "exception"), fault |-> "exception"]
  ELSE IF ~out.is_seq \/ Len(out.elems) # 2
  THEN [pc |-> "returned", game |-> g, move_count |-> mc,
        result |-> fault_result(g, pl, "format"), fault |-> "format"]
  ELSE IF ~can_int(out.elems[1]) \/ ~can_int(out.elems[2])
  THEN [pc |-> "returned", game |-> g, move_count |-> mc,
        result |-> fault_result(g, pl, "exception"), fault |-> "coerce"]
  ELSE LET r == make_move(g, python_int(out.elems[1]),
                             python_int(out.elems[2]))
       IN  IF ~r.ok
           THEN [pc |-> "returned", game |-> r.game, move_count |-> mc,
                 result |-> fault_result(r.game, pl, "invalid_move"),
                 fault |-> "invalid_move"]
           ELSE [pc |-> "playing", game |-> r.game, move_count |-> mc + 1,
                 result |-> NoResult, fault |-> None]

\* engine.py:173-198  the file write_game_log produces: a name
\* log-<timestamp>.log and lines of text with the game number, the two
\* player assignments, the winner, the error (if any) and, when the result
\* has a "history" key, the moves; the board size is not written
log_record(game_num, res) ==
  [ext |-> "log", format |-> "text",
   game_num |-> game_num, black |-> res.players.black,
   white |-> res.players.white, winner |-> res.winner, error |-> res.error,
   has_history |-> res.has_history, history |-> res.history]

\* engine.py:172-175  the directory (its files in the order of their names)
\* after open(log_filename, 'w'): the name is the clock reading in
\* milliseconds, so a file written in the same millisecond as the one
\* before takes its name and replaces it
write_file(files, f, same_ms) ==
  IF same_ms /\ files # <<>>
  THEN [files EXCEPT ![Len(files)] = f]
  ELSE Append(files, f)

\* ------------------------------------------------ the viewer (visualizer.py)
\* visualizer.py:736 glob("*.json") and 757 filename.endswith(".json")
is_json_name(f) == f.ext = "json"

\* visualizer.py:739 and 768  json.load(f) returns instead of raising
json_loads(f) == f.format = "json"

\* visualizer.py:727-751  get_games: the files of the directory (by their
\* position in it) that the listing names: those called *.json whose
\* content json.load accepts
get_games(files) ==
  {k \in 1..Len(files) : is_json_name(files[k]) /\ json_loads(files[k])}

\* visualizer.py:754-771  get_game for the name of the k-th file of the
\* directory: the HTTP status, and whether the body is the parsed game
get_game(files, k) ==
  IF ~is_json_name(files[k]) THEN [status |-> 400, is_game |-> FALSE]
  ELSE IF ~json_loads(files[k]) THEN [status |-> 500, is_game |-> FALSE]
  ELSE [status |-> 200, is_game |-> TRUE]

\* ---------------------------------------- the replay page (visualizer.py JS)
\* The page state v is a record of the script's globals and of what the page
\* shows.  currentGame is the parsed game (is_null while it is null), a
\* record of board_size and moves, each move a record of player, x, y.
\* cells[k] lists the classes of the stones inside the k-th .cell element.
null_game == [is_null |-> TRUE, board_size |-> 0, moves |-> <<>>]

\* visualizer.py:438-442  the globals when the script starts, the page of
\* visualizer.py:397-412 as served, and no request under way
page_opened ==
  [currentGame      |-> null_game,
   currentMoveIndex |-> 0,
   isPlaying        |-> FALSE,
   playInterval     |-> FALSE,
   cells            |-> <<>>,
   move_counter     |-> 0,
   fetching         |-> {}]

\* visualizer.py:646-653  stopPlaying
stopPlaying(v) == [v EXCEPT !.isPlaying = FALSE, !.playInterval = FALSE]

\* visualizer.py:489-501  setupBoard: size * size empty cells
setupBoard(v) ==
  LET size == v.currentGame.board_size
  IN  [v EXCEPT !.cells = [k \in 0..(size * size - 1) |-> <<>>]]

\* visualizer.py:518-529  the stones the loop of renderBoard appends, cell by
\* cell: those of moves[i] for 0 <= i <= currentMoveIndex and i < length
\* (moves[j] for 1 <= j <= currentMoveIndex + 1 in a sequence counted from 1)
stones_drawn(g, idx) ==
  LET last  == IF idx + 1 < Len(g.moves) THEN idx + 1 ELSE Len(g.moves)
      drawn == SubSeq(g.moves, 1, last)
      at(k) == SelectSeq(drawn, LAMBDA m : m.x * g.board_size + m.y = k)
  IN  [k \in 0..(g.board_size * g.board_size - 1) |->
         [j \in 1..Len(at(k)) |-> at(k)[j].player]]

\* visualizer.py:550-565  checkWinner: the banner, and stopPlaying at the end
checkWinner(v) ==
  IF v.currentMoveIndex = Len(v.currentGame.moves) THEN stopPlaying(v) ELSE v

\* visualizer.py:512-533 and 536-537  renderBoard: clears the cells, draws
\* the stones, writes "Move <currentMoveIndex>" and calls checkWinner
renderBoard(v) ==
  checkWinner([v EXCEPT
                 !.cells = stones_drawn(v.currentGame, v.currentMoveIndex),
                 !.move_counter = v.currentMoveIndex])

\* visualizer.py:470-486  loadGame once the response g has arrived
loadGame(v, g) ==
  renderBoard(setupBoard([v EXCEPT !.currentGame = g,
                                   !.currentMoveIndex = 0]))

\* visualizer.py:589-594  firstMove
firstMove(v) == renderBoard([stopPlaying(v) EXCEPT !.currentMoveIndex = 0])

\* visualizer.py:596-603  prevMove
prevMove(v) ==
  IF v.currentMoveIndex > 0
  THEN renderBoard([stopPlaying(v) EXCEPT !.currentMoveIndex = @ - 1])
  ELSE stopPlaying(v)

\* visualizer.py:605-613  nextMove
nextMove(v) ==
  IF v.currentMoveIndex < Len(v.currentGame.moves)
  THEN renderBoard([v EXCEPT !.currentMoveIndex = @ + 1])
  ELSE stopPlaying(v)

\* visualizer.py:615-620  lastMove
lastMove(v) ==
  renderBoard([stopPlaying(v) EXCEPT
                 !.currentMoveIndex = Len(v.currentGame.moves)])

\* visualizer.py:630-644  startPlaying
startPlaying(v) ==
  LET w == IF v.currentMoveIndex >= Len(v.currentGame.moves)
           THEN renderBoard([v EXCEPT !.currentMoveIndex = 0])
           ELSE v
  IN  [w EXCEPT !.isPlaying = TRUE, !.playInterval = TRUE]

\* visualizer.py:622-628  togglePlay
togglePlay(v) == IF v.isPlaying THEN stopPlaying(v) ELSE startPlaying(v)

\* visualizer.py:655-658  resetGame
resetGame(v) == firstMove(stopPlaying(v))

\* visualizer.py:579-583  the onclick of the move-list item of moves[index]
\* (index counted from 0)
move_item_click(v, index) ==
  renderBoard([v EXCEPT !.currentMoveIndex = index + 1])

\* visualizer.py:675-683  the input handler of the speed slider
speed_input(v) == IF v.isPlaying THEN startPlaying(stopPlaying(v)) ELSE v

\* ---------------------------------------------------------------- actions
\* an assignment that always gives black to player1
color_assignments_Player1Black == {[black |-> "player1", white |-> "player2"]}

\* engine.py:123-127  random.random() < 0.5 decides which player is black
color_assignments ==
  {[black |-> first, white |-> other_name(first)] : first \in PlayerNames}

\* a tally that counts wins only
count_result_WinsOnly(sc, res) ==
  IF res.winner = "draw" THEN sc ELSE [sc EXCEPT ![res.winner] = @ + 1]

\* engine.py:219-220  winner = result["winner"]; scores[winner] += 1
count_result(sc, res) == [sc EXCEPT ![res.winner] = @ + 1]

\* engine.py:201-215  main after parse_args, before the first round (no
\* match has started: game holds a fresh board until run_game builds one)
Init ==
  /\ viewer = page_opened
  /\ args \in CommandLines
  /\ i = 0
  /\ scores = [player1 |-> 0, player2 |-> 0, draw |-> 0]
  /\ logs = <<>>
  /\ module_counter = 0
  /\ pc = "main"
  /\ players = NoPlayers
  /\ game = GomokuGame(args.board_size)
  /\ move_count = 0
  /\ result = NoResult
  /\ invocations = 0
  /\ fault = None
  /\ last_call = NoCall
  /\ invoked = None
  /\ grid_writes = {}
  /\ evaluated = NoEvaluation

\* engine.py:217-218 and 110-132  main enters a round and calls run_game,
\* which loads both modules, draws the colours and builds the game
run_game_start ==
  /\ UNCHANGED viewer
  /\ pc = "main"
  /\ i < args.rounds
  /\ invocations' = 0
  /\ fault' = None
  /\ move_count' = 0
  /\ invoked' = None
  /\ grid_writes' = {}
  /\ LET l == load_players(args)
     IN  /\ module_counter' = module_counter + l.loads
         /\ IF ~l.ok
            THEN /\ result' = l.result
                 /\ pc' = "returned"
                 /\ UNCHANGED <<players, game>>
            ELSE /\ players' \in color_assignments
                 /\ game' = GomokuGame(args.board_size)
                 /\ result' = NoResult
                 /\ pc' = "playing"
  /\ UNCHANGED <<args, i, scores, logs, last_call, evaluated>>

\* engine.py:134-161  one iteration of the while loop of run_game
play_turn ==
  /\ UNCHANGED viewer
  /\ pc = "playing"
  /\ loop_continues(game, move_count)
  /\ invoked' = player_to_call(game, players)
  /\ \E out \in move_fn_outcomes(args[invoked'].kind, game) :
       LET t == one_turn(game, move_count, players, out)
       IN  /\ pc' = t.pc
           /\ game' = t.game
           /\ move_count' = t.move_count
           /\ result' = t.result
           /\ fault' = t.fault
           /\ grid_writes' = out.writes
  /\ invocations' = invocations + 1
  /\ UNCHANGED <<args, i, scores, logs, module_counter, players, last_call,
                 evaluated>>

\* engine.py:134 and 163-167  the loop ends and run_game returns
run_game_return ==
  /\ UNCHANGED viewer
  /\ pc = "playing"
  /\ ~loop_continues(game, move_count)
  /\ result' = final_result(game, players)
  /\ pc' = "returned"
  /\ UNCHANGED <<args, i, scores, logs, module_counter, players, game,
                 move_count, invocations, fault, last_call, invoked,
                 grid_writes, evaluated>>

\* engine.py:219-229  main records the result of the round
record_result ==
  /\ UNCHANGED viewer
  /\ pc = "returned"
  /\ scores' = count_result(scores, result)
  /\ IF args.output_dir /\ result.has_players
     THEN \E same_ms \in BOOLEAN :
            logs' = write_file(logs, log_record(i + 1, result), same_ms)
     ELSE logs' = logs
  /\ i' = i + 1
  /\ pc' = "main"
  /\ UNCHANGED <<args, module_counter, players, game, move_count, result,
                 invocations, fault, last_call, invoked, grid_writes,
                 evaluated>>

\* engine.py:231-238  main prints FINAL_RESULTS and ends
final_results ==
  /\ UNCHANGED viewer
  /\ pc = "main"
  /\ i >= args.rounds
  /\ pc' = "exit"
  /\ UNCHANGED <<args, i, scores, logs, module_counter, players, game,
                 move_count, result, invocations, fault, last_call, invoked,
                 grid_writes, evaluated>>

Next ==
  \/ run_game_start
  \/ play_turn
  \/ run_game_return
  \/ record_result
  \/ final_results

\* the tournament: python engine.py player1 player2 -r rounds -b board_size
Spec == Init /\ [][Next]_vars

\* --------------------------------------------- the evaluator against itself
\* the board sizes on which src/main.py plays src/main.py
MatchSizes == SmallSize..N

\* python engine.py main.py main.py -r 1 -b board_size
MatchInit ==
  /\ viewer = page_opened
  /\ args \in {Args(1, n, FALSE, <<Loadable("evaluator"),
                                   Loadable("evaluator")>>) :
                n \in MatchSizes}
  /\ i = 0
  /\ scores = [player1 |-> 0, player2 |-> 0, draw |-> 0]
  /\ logs = <<>>
  /\ module_counter = 0
  /\ pc = "main"
  /\ players = NoPlayers
  /\ game = GomokuGame(args.board_size)
  /\ move_count = 0
  /\ result = NoResult
  /\ invocations = 0
  /\ fault = None
  /\ last_call = NoCall
  /\ invoked = None
  /\ grid_writes = {}
  /\ evaluated = NoEvaluation

MatchSpec == MatchInit /\ [][Next]_vars

\* ------------------------------------------------- GomokuGame used directly
\* a caller that builds one game and keeps calling make_move on it, naming
\* the cells a strategy of the colour to move would name, or stray ones
GameInit ==
  /\ viewer = page_opened
  /\ args \in DirectGames
  /\ i = 0
  /\ scores = [player1 |-> 0, player2 |-> 0, draw |-> 0]
  /\ logs = <<>>
  /\ module_counter = 0
  /\ pc = "api"
  /\ players = [black |-> "player1", white |-> "player2"]
  /\ game = GomokuGame(args.board_size)
  /\ move_count = 0
  /\ result = NoResult
  /\ invocations = 0
  /\ fault = None
  /\ last_call = NoCall
  /\ invoked = None
  /\ grid_writes = {}
  /\ evaluated = NoEvaluation

\* engine.py:31-50  one call game.make_move(x, y)
call_make_move ==
  /\ UNCHANGED viewer
  /\ pc = "api"
  /\ \E c \in strategy_cells(args[players[game.current_player]].kind,
                             game.board, game.board_size)
              \cup stray_coords(game) :
       LET r == make_move(game, c[1], c[2])
       IN  /\ game' = r.game
           /\ last_call' = [called |-> TRUE, ok |-> r.ok]
  /\ UNCHANGED <<args, i, scores, logs, module_counter, pc, players,
                 move_count, result, invocations, fault, invoked,
                 grid_writes, evaluated>>

GameNext == call_make_move

GameSpec == GameInit /\ [][GameNext]_vars

\* ------------------------------------------------ the evaluator on its own
\* the lines on which the boards given to get_move carry stones: the
\* evaluator's along the top row or along the anti-diagonal, the
\* opponent's along the third row and on one cell away from it, each over
\* a stretch long enough for a run of six
own_lines(n) ==
  {{c \in line_cells(k, n) : c[1] <= WinLen /\ c[2] <= WinLen} :
     k \in {"row", "anti"}}

opp_cells(n) == {<<2, y>> : y \in 0..WinLen} \cup {<<4, 0>>}

\* the board of side n with stone `a` on the cells A and stone `b` on B
board_with(n, A, a, B, b) ==
  [x \in 0..(n - 1) |-> [y \in 0..(n - 1) |->
     IF <<x, y>> \in A THEN a ELSE IF <<x, y>> \in B THEN b ELSE 0]]

\* engine.py:44-46, 134  a board handed to a strategy belongs to a game
\* nobody has won: no stone of it lies in a run of exactly 5
no_five(board, n) ==
  \A c \in AllCells(n) : \A d \in directions :
    board[c[1]][c[2]] # 0 =>
      1 + stones_from(board, n, c[1] + d[1], c[2] + d[2], d[1], d[2],
                      board[c[1]][c[2]])
        + stones_from(board, n, c[1] - d[1], c[2] - d[2], 0 - d[1], 0 - d[2],
                      board[c[1]][c[2]]) # 5

\* engine.py:29, 49  black moves first and the colours alternate: black to
\* move sees as many white stones as black ones, white to move one less
stones_match_turn(color, own, opp) ==
  IF color = "black" THEN opp = own ELSE opp = own + 1

\* a full board of side n without a run of five: the colours alternate
\* along every row, in step for two rows and then out of step for two
full_board(n) ==
  [x \in 0..(n - 1) |-> [y \in 0..(n - 1) |->
     IF ((x \div 2) + y) % 2 = 0 THEN 1 ELSE 2]]

\* the calls get_move(board, color) explored, on the board of side N
EvalInputs ==
  {[called |-> FALSE, board |-> board_with(N, A, stone_of(c), B,
                                           stone_of(other_color(c))),
    color |-> c, choices |-> {}, move |-> <<>>] :
     c \in Colors,
     A \in UNION {SUBSET L : L \in own_lines(N)},
     B \in SUBSET opp_cells(N)}
  \cup {[called |-> FALSE, board |-> full_board(N), color |-> c,
         choices |-> {}, move |-> <<>>] : c \in Colors}

EvalInit ==
  /\ viewer = page_opened
  /\ args = Args(1, N, FALSE, <<Loadable("filler"), Loadable("filler")>>)
  /\ i = 0
  /\ scores = [player1 |-> 0, player2 |-> 0, draw |-> 0]
  /\ logs = <<>>
  /\ module_counter = 0
  /\ pc = "evaluator"
  /\ players = NoPlayers
  /\ game = GomokuGame(N)
  /\ move_count = 0
  /\ result = NoResult
  /\ invocations = 0
  /\ fault = None
  /\ last_call = NoCall
  /\ invoked = None
  /\ grid_writes = {}
  /\ evaluated \in EvalInputs
  /\ LET b == evaluated.board
         count(v) == Cardinality({c \in AllCells(N) : b[c[1]][c[2]] = v})
     IN  /\ stones_match_turn(evaluated.color,
                              count(stone_of(evaluated.color)),
                              count(stone_of(other_color(evaluated.color))))
         /\ no_five(b, N)

\* main.py:10-45  one call get_move(board, color)
call_get_move ==
  /\ UNCHANGED viewer
  /\ pc = "evaluator"
  /\ ~evaluated.called
  /\ \E cells \in {get_move(evaluated.board, evaluated.color)} :
       \E m \in cells :
           evaluated' = [evaluated EXCEPT !.called = TRUE,
                                          !.choices = cells, !.move = m]
  /\ UNCHANGED <<args, i, scores, logs, module_counter, pc, players, game,
                 move_count, result, invocations, fault, last_call, invoked,
                 grid_writes>>

EvalNext == call_get_move

EvalSpec == EvalInit /\ [][EvalNext]_vars

\* ------------------------------------------------- the replay page in use
\* the games /api/game can return: boards of side SmallSize, up to MaxMoves
\* moves on different cells, black and white in turn
served_moves(len) ==
  {m \in [1..len -> [player : Colors, x : 0..(SmallSize - 1),
                                     y : 0..(SmallSize - 1)]] :
     /\ \A j \in 1..len : m[j].player = IF j % 2 = 1 THEN "black" ELSE "white"
     /\ \A j, k \in 1..len : j # k => <<m[j].x, m[j].y>> # <<m[k].x, m[k].y>>}

ServedGames ==
  {[is_null |-> FALSE, board_size |-> SmallSize, moves |-> m] :
     m \in UNION {served_moves(len) : len \in 0..MaxMoves}}

ViewerInit ==
  /\ viewer = page_opened
  /\ args = Args(1, SmallSize, FALSE, <<Loadable("filler"), Loadable("filler")>>)
  /\ i = 0
  /\ scores = [player1 |-> 0, player2 |-> 0, draw |-> 0]
  /\ logs = <<>>
  /\ module_counter = 0
  /\ pc = "viewer"
  /\ players = NoPlayers
  /\ game = GomokuGame(args.board_size)
  /\ move_count = 0
  /\ result = NoResult
  /\ invocations = 0
  /\ fault = None
  /\ last_call = NoCall
  /\ invoked = None
  /\ grid_writes = {}
  /\ evaluated = NoEvaluation

engine_vars == <<args, i, scores, logs, module_counter, pc, players, game,
                 move_count, result, invocations, fault, last_call, invoked,
                 grid_writes, evaluated>>

\* the controls lie in #game-area, shown once a game is loaded
\* (visualizer.py:121-128, 482); the key handler returns while currentGame
\* is null (visualizer.py:687)
controls_usable == pc = "viewer" /\ ~viewer.currentGame.is_null

\* visualizer.py:661-666  a game is chosen in #game-select: stopPlaying,
\* then loadGame sends its request (one request awaited at a time)
select_game ==
  /\ pc = "viewer"
  /\ viewer.fetching = {}
  /\ \E g \in ServedGames :
       viewer' = [stopPlaying(viewer) EXCEPT !.fetching = {g}]
  /\ UNCHANGED engine_vars

\* visualizer.py:472-482  the response arrives and loadGame goes on
game_response ==
  /\ pc = "viewer"
  /\ \E g \in viewer.fetching :
       viewer' = [loadGame(viewer, g) EXCEPT !.fetching = {}]
  /\ UNCHANGED engine_vars

\* visualizer.py:668, 700-702  First button / Home key
click_first ==
  /\ controls_usable
  /\ viewer' = firstMove(viewer)
  /\ UNCHANGED engine_vars

\* visualizer.py:669, 690-692  Previous button / ArrowLeft key
click_prev ==
  /\ controls_usable
  /\ viewer' = prevMove(viewer)
  /\ UNCHANGED engine_vars

\* visualizer.py:671, 693-695  Next button / ArrowRight key
click_next ==
  /\ controls_usable
  /\ viewer' = nextMove(viewer)
  /\ UNCHANGED engine_vars

\* visualizer.py:672, 703-705  Last button / End key
click_last ==
  /\ controls_usable
  /\ viewer' = lastMove(viewer)
  /\ UNCHANGED engine_vars

\* visualizer.py:670, 696-699  Play button / space key
click_play ==
  /\ controls_usable
  /\ viewer' = togglePlay(viewer)
  /\ UNCHANGED engine_vars

\* visualizer.py:673, 706-709  Reset button / r key
click_reset ==
  /\ controls_usable
  /\ viewer' = resetGame(viewer)
  /\ UNCHANGED engine_vars

\* visualizer.py:579-583  a click on an item of the move list
click_move_item ==
  /\ controls_usable
  /\ \E index \in 0..(Len(viewer.currentGame.moves) - 1) :
       viewer' = move_item_click(viewer, index)
  /\ UNCHANGED engine_vars

\* visualizer.py:675-683  the speed slider is moved
move_speed_slider ==
  /\ controls_usable
  /\ viewer' = speed_input(viewer)
  /\ UNCHANGED engine_vars

\* visualizer.py:641-643  the interval timer fires while it is set
autoplay_tick ==
  /\ controls_usable
  /\ viewer.playInterval
  /\ viewer' = nextMove(viewer)
  /\ UNCHANGED engine_vars

ViewerNext ==
  \/ select_game
  \/ game_response
  \/ click_first
  \/ click_prev
  \/ click_next
  \/ click_last
  \/ click_play
  \/ click_reset
  \/ click_move_item
  \/ move_speed_slider
  \/ autoplay_tick

ViewerSpec == ViewerInit /\ [][ViewerNext]_vars

\* ----------------------------------------------------------------- claims
\* the latest entry of the history of g
last_entry(g) == g.history[Len(g.history)]

\* (x, y) is on the board of g and holds `stone`
holds_stone(g, x, y, stone) == in_bounds(g, x, y) /\ g.board[x][y] = stone

\* length of the contiguous run of `stone` through (x, y) along direction d:
\* the offsets k all of whose cells between (x, y) and (x, y) + k d hold it
run_length(g, x, y, d, stone) ==
  LET n == g.board_size
      between(k) == IF k >= 0 THEN 0..k ELSE k..0
  IN  Cardinality({k \in (1 - n)..(n - 1) :
        \A j \in between(k) :
          holds_stone(g, x + j * d[1], y + j * d[2], stone)})

\* some axis through the latest stone carries a run of exactly 5 of its colour
latest_stone_in_exact_five(g) ==
  LET h == last_entry(g)
  IN  \E d \in directions : run_length(g, h[2], h[3], d, stone_of(h[1])) = 5

\* the number of non-empty cells of the board of g
stones_on_board(g) ==
  Cardinality({c \in AllCells(g.board_size) : g.board[c[1]][c[2]] # 0})

\* the game is won, or its board is full
terminal(g) == g.winner # None \/ is_full(g)

\* C1: after every accepted move of colour c at (x, y) the win check is true,
\* and the winner is c, if and only if some axis through (x, y) carries a
\* contiguous run of exactly 5 stones of c; otherwise there is no winner, in
\* particular when the run has 6 or more stones
C1_WinIffExactlyFive ==
  game.history # <<>> =>
    LET h == last_entry(game)
    IN  /\ (game.winner = h[1]) <=> latest_stone_in_exact_five(game)
        /\ check_win(game, h[2], h[3], stone_of(h[1]))
             <=> latest_stone_in_exact_five(game)
        /\ game.winner \in {None, h[1]}

\* the latest stone completed a run of 6 or more and nobody has won
C1_Witness ==
  /\ game.history # <<>>
  /\ game.winner = None
  /\ LET h == last_entry(game)
     IN  \E d \in directions :
           run_length(game, h[2], h[3], d, stone_of(h[1])) >= 6

\* C2: a call of make_move that returns false leaves the board, the history,
\* the current colour and the winner as they were
C2_RejectedMoveChangesNothing ==
  [][(last_call'.called /\ ~last_call'.ok) => game' = game]_vars

\* a call was rejected in a game that is already won
C2_Witness ==
  /\ last_call.called /\ ~last_call.ok
  /\ game.winner # None

\* C3: once the game is won or the board is full, every call of make_move
\* returns false and the game never changes again
C3_TerminalIsAbsorbing ==
  [][terminal(game) => (game' = game /\ ~last_call'.ok)]_vars

\* a call was rejected on a full board without a winner
C3_Witness ==
  /\ last_call.called /\ ~last_call.ok
  /\ is_full(game) /\ game.winner = None

\* C5: the history has one entry per non-empty cell of the board, so never
\* more than board_size x board_size entries
C5_HistoryCountsStones ==
  /\ Len(game.history) = stones_on_board(game)
  /\ Len(game.history) <= game.board_size * game.board_size

\* a call was rejected in an open game with stones of both colours
C5_Witness ==
  /\ last_call.called /\ ~last_call.ok
  /\ game.winner = None /\ ~is_full(game)
  /\ Len(game.history) >= 4

\* C7: whenever the winner is c the latest history entry is a stone of c in
\* a run of exactly 5, and a step that sets the winner appends that entry
C7_WinnerIsLatestMover ==
  /\ [](game.winner # None =>
          /\ game.history # <<>>
          /\ last_entry(game)[1] = game.winner
          /\ latest_stone_in_exact_five(game))
  /\ [][(game'.winner # game.winner /\ game'.winner # None) =>
          /\ game.winner = None
          /\ game'.history =
               Append(game.history, last_entry(game'))
          /\ last_entry(game')[1] = game'.winner]_vars

\* white has won
C7_Witness ==
  /\ game.winner = "white"
  /\ last_entry(game)[1] = "white"

\* C8: a new game has an empty board, and a cell that holds a stone holds
\* the same stone after every later call of make_move
C8_StonesArePermanent ==
  /\ \A c \in AllCells(game.board_size) : game.board[c[1]][c[2]] = 0
  /\ [][\A c \in AllCells(game.board_size) :
          game.board[c[1]][c[2]] # 0 =>
            game'.board[c[1]][c[2]] = game.board[c[1]][c[2]]]_vars

\* a call was rejected while stones of both colours lie on the board and
\* the game is won by black
C8_Witness ==
  /\ last_call.called /\ ~last_call.ok
  /\ game.winner = "black"
  /\ \E c \in AllCells(game.board_size) : game.board[c[1]][c[2]] = 2

\* C4: every fault of a strategy at move time yields a result whose winner
\* is the player of the colour opposite to the one that was to move, never a
\* draw and never the offender
C4_FaultGivesWinToOpponent ==
  fault # None =>
    /\ pc # "crashed"
    /\ result.error # None
    /\ result.winner = players[other_color(game.current_player)]
    /\ result.winner # players[game.current_player]
    /\ result.winner # "draw"

\* C6: run_game reports a draw only for a full board without a winner, and
\* a full board whose last stone won is reported as that colour's win
C6_DrawOnlyOnFullBoardWithoutWinner ==
  /\ result.winner = "draw" => (is_full(game) /\ game.winner = None)
  /\ (pc = "returned" /\ result.error = None /\ game.winner # None) =>
       result.winner = players[game.winner]

\* the stone that filled the board completed a five, and the match is
\* reported as won
C6_Witness ==
  /\ pc = "returned"
  /\ is_full(game)
  /\ game.winner # None
  /\ result.winner = players[game.winner]

\* C9: a match makes at most board_size x board_size calls of a strategy:
\* every iteration ends the match or places one stone and counts it, and no
\* call is made once the count is board_size x board_size or a winner is set
C9_MatchEndsWithinBoardArea ==
  /\ [](/\ invocations <= max_moves(game)
        /\ move_count <= max_moves(game)
        /\ pc = "playing" =>
             (move_count = invocations /\ move_count = Len(game.history)))
  /\ [][(pc = "playing" /\ invocations' # invocations) =>
          /\ invocations' = invocations + 1
          /\ \/ pc' \in {"returned", "crashed"}
             \/ /\ pc' = "playing"
                /\ move_count' = move_count + 1
                /\ stones_on_board(game') = stones_on_board(game) + 1]_vars
  /\ [][(pc = "playing"
           /\ (game.winner # None \/ move_count >= max_moves(game))) =>
          (invocations' = invocations /\ pc' = "returned")]_vars

\* a match in which the strategies were called board_size x board_size
\* times and which ended as a draw
C9_Witness ==
  /\ pc = "returned"
  /\ invocations = max_moves(game)
  /\ game.board_size > 1
  /\ result.winner = "draw"

\* C10: no fault in a match stops the tournament: when the program stops all
\* configured rounds have been played and the final results were printed
C10_TournamentAlwaysCompletes ==
  pc \in {"exit", "crashed"} => (pc = "exit" /\ i = args.rounds)

\* the sides of the tournament whose strategy file does not load
failing_sides == {p \in PlayerNames : ~args[p].loads}

\* C11: if a strategy fails to load, then after the run the other side has
\* won every round and the failing side and the draw counter stand at 0,
\* also when both strategies fail to load
C11_LoadFaultForfeitsEveryMatch ==
  pc = "exit" =>
    \A p \in failing_sides :
      /\ scores[other_name(p)] = args.rounds
      /\ scores[p] = 0
      /\ scores.draw = 0

\* C11 amended: if exactly one strategy fails to load, then after the run
\* the other side has won every round and the failing side and the draw
\* counter stand at 0; if both fail to load, player2 has won every round
C11_LoadFaultForfeitsToOtherOrPlayer2 ==
  (pc = "exit" /\ failing_sides # {}) =>
    LET winner == IF "player1" \in failing_sides THEN "player2"
                  ELSE "player1"
    IN  /\ scores[winner] = args.rounds
        /\ scores[other_name(winner)] = 0
        /\ scores.draw = 0
        /\ Cardinality(failing_sides) = 1 => winner \notin failing_sides

\* a tournament of several rounds has ended in which only player2 failed
\* to load and player1 was awarded every round
C11_Witness ==
  /\ pc = "exit"
  /\ failing_sides = {"player2"}
  /\ args.rounds > 1
  /\ scores.player1 = args.rounds

\* the board that holds exactly the stones of the entries of history h
board_of_history(h, n) ==
  [x \in 0..(n - 1) |-> [y \in 0..(n - 1) |->
     IF \E k \in 1..Len(h) : h[k][2] = x /\ h[k][3] = y
     THEN stone_of(h[CHOOSE k \in 1..Len(h) :
                         h[k][2] = x /\ h[k][3] = y][1])
     ELSE 0]]

\* C12: whatever a strategy stores into the grid it receives, the call
\* leaves the live board, history, current colour and winner as they were
\* (the game changes only by the move the engine then accepts), and the grid
\* the next call receives holds the stones of the accepted moves and no other
C12_StrategyCannotTouchLiveGame ==
  /\ [](pc \in {"playing", "returned", "crashed"} =>
          get_board_copy(game).cells
            = board_of_history(game.history, game.board_size))
  /\ [][(pc = "playing" /\ invocations' # invocations) =>
          \/ game' = game
          \/ \E c \in AllCells(game.board_size) :
               /\ game.board[c[1]][c[2]] = 0
               /\ game' = apply_move(game, c[1], c[2])]_vars

\* the latest call stored a stone and an empty value into its grid and then
\* faulted, in a match that goes on from a board with several stones
C12_Witness ==
  /\ pc = "returned"
  /\ fault = "exception"
  /\ Cardinality(grid_writes) = 2
  /\ Len(game.history) >= 3

\* C13: when an output directory is configured, one log file has been
\* written for every match played so far, whatever its outcome
C13_OneLogPerMatch ==
  args.output_dir => Len(logs) = i

\* the moves listed in a log file: those under "Move History", none when
\* the file has no such section
logged_moves(f) == IF f.has_history THEN f.history ELSE <<>>

\* C14: the log file of a match lists, in order, every move accepted in
\* that match, also when the match ended by a fault after some moves
C14_LogListsEveryAcceptedMove ==
  (pc = "main" /\ i > 0 /\ args.output_dir /\ result.has_players) =>
    logged_moves(logs[Len(logs)]) = game.history

\* a cell of the grid of side n
on_grid(n, q) == 0 <= q[1] /\ q[1] < n /\ 0 <= q[2] /\ q[2] < n

\* a stone of `stone` on the empty cell c would lie in a contiguous run of
\* exactly `len` stones: some window of `len` cells along a line holds c and
\* otherwise that stone, and the cell before and the cell after it do not
makes_run(board, n, c, stone, len) ==
  \E d \in directions : \E s \in 0..(len - 1) :
    LET cell(j) == <<c[1] + (j - s) * d[1], c[2] + (j - s) * d[2]>>
        has(q)  == on_grid(n, q) /\ board[q[1]][q[2]] = stone
    IN  /\ \A j \in 0..(len - 1) : cell(j) = c \/ has(cell(j))
        /\ ~has(cell(0 - 1))
        /\ ~has(cell(len))

\* the empty cells at which a stone of `stone` completes exactly five
winning_cells(board, n, stone) ==
  {c \in AllCells(n) :
     board[c[1]][c[2]] = 0 /\ makes_run(board, n, c, stone, 5)}

\* the cells next to the end of four stones of `stone` in a row
four_ends(board, n, stone) ==
  {c \in AllCells(n) :
     \E d \in directions : \E sign \in {1, 0 - 1} :
       \A j \in 1..4 :
         LET q == <<c[1] + sign * j * d[1], c[2] + sign * j * d[2]>>
         IN  on_grid(n, q) /\ board[q[1]][q[2]] = stone}

\* the first cell of S in row-major order, x outer and y inner
first_in_scan(S) ==
  CHOOSE c \in S : \A d \in S : c[1] < d[1] \/ (c[1] = d[1] /\ c[2] <= d[2])

\* C15: on a board where the evaluator's colour has four stones in a row
\* with an empty cell at an end, get_move returns that cell, the first such
\* cell in row-major order when there are several
C15_ReturnsEndOfOwnFour ==
  LET b    == evaluated.board
      ends == {c \in four_ends(b, N, stone_of(evaluated.color)) :
                 b[c[1]][c[2]] = 0}
  IN  (evaluated.called /\ ends # {}) =>
        evaluated.move = first_in_scan(ends)

\* C15 amended: on a board with an empty cell at which a stone of the
\* evaluator's colour completes a run of exactly five, get_move returns the
\* first such cell in row-major order, whatever the opponent threatens and
\* whatever the scoring prefers
C15_ReturnsFirstWinningCell ==
  LET W == winning_cells(evaluated.board, N, stone_of(evaluated.color))
  IN  (evaluated.called /\ W # {}) => evaluated.move = first_in_scan(W)

\* get_move returned the first of two winning cells, the empty ends of a
\* four, on a board where the opponent has a winning cell too
C15_Witness ==
  LET b == evaluated.board
      W == winning_cells(b, N, stone_of(evaluated.color))
  IN  /\ evaluated.called
      /\ Cardinality(W) = 2
      /\ W \subseteq four_ends(b, N, stone_of(evaluated.color))
      /\ winning_cells(b, N, stone_of(other_color(evaluated.color))) # {}
      /\ evaluated.move = first_in_scan(W)

\* C16: on a board where the opponent has four stones in a row and the
\* evaluator has no cell that wins at once, get_move returns an empty cell
\* at which the opponent's stone would complete five
C16_BlocksOpponentFour ==
  LET b   == evaluated.board
      own == stone_of(evaluated.color)
      opp == stone_of(other_color(evaluated.color))
  IN  (/\ evaluated.called
       /\ four_ends(b, N, opp) # {}
       /\ winning_cells(b, N, own) = {}) =>
        /\ b[evaluated.move[1]][evaluated.move[2]] = 0
        /\ \E len \in 5..N :
             makes_run(b, N, evaluated.move, opp, len)

\* C16 amended: on a board with an empty cell at which the opponent's
\* stone completes a run of exactly five, and none at which the
\* evaluator's does, get_move returns the first such cell in row-major order
C16_BlocksFirstOpponentWinningCell ==
  LET b    == evaluated.board
      Wown == winning_cells(b, N, stone_of(evaluated.color))
      Wopp == winning_cells(b, N, stone_of(other_color(evaluated.color)))
  IN  (evaluated.called /\ Wown = {} /\ Wopp # {}) =>
        evaluated.move = first_in_scan(Wopp)

\* get_move returned the empty end of the opponent's four although the
\* evaluator has four stones in a row of its own that cannot become five
C16_Witness ==
  LET b    == evaluated.board
      own  == stone_of(evaluated.color)
      opp  == stone_of(other_color(evaluated.color))
      Wopp == winning_cells(b, N, opp)
  IN  /\ evaluated.called
      /\ winning_cells(b, N, own) = {}
      /\ four_ends(b, N, own) # {}
      /\ Wopp # {}
      /\ evaluated.move \in Wopp \cap four_ends(b, N, opp)

\* C17: a returned value that is not a sequence of two elements, or whose
\* two elements int() rejects, ends the match as a format fault: the
\* opponent wins and the reason recorded is the invalid-format one
C17_MalformedReturnIsFormatFault ==
  fault \in {"format", "coerce"} =>
    /\ result.error = "format"
    /\ result.winner = players[other_color(game.current_player)]

\* C18: a fault at move time ends the match at once: the faulting call adds
\* no stone and no history entry, and no strategy is called again before
\* the next match starts
C18_FaultEndsMatchAtOnce ==
  /\ [](fault # None => pc # "playing")
  /\ [][(invocations' # invocations /\ fault' # None) =>
          /\ game'.board = game.board
          /\ game'.history = game.history]_vars
  /\ [][(fault # None /\ invocations' # invocations) =>
          (pc = "main" /\ invocations' = 0 /\ i' = i /\ i < args.rounds)]_vars

\* a match ended when a strategy named an unusable cell after several
\* accepted moves, and main has recorded it and is about to start the next
C18_Witness ==
  /\ pc = "main"
  /\ i = 1 /\ args.rounds > 1
  /\ fault = "invalid_move"
  /\ invocations = Len(game.history) + 1
  /\ Len(game.history) >= 2

\* C19: every log file written by write_game_log is named in the listing
\* of /api/games and is returned by /api/game/<filename> as the parsed game
C19_ViewerServesEveryLog ==
  \A k \in 1..Len(logs) :
    /\ k \in get_games(logs)
    /\ get_game(logs, k).status = 200
    /\ get_game(logs, k).is_game

\* C20: in a match the k-th accepted move is black's when k is odd and
\* white's when k is even, and every turn calls the strategy of the player
\* who holds the colour to move, whose stone an accepted move then places
C20_BlackFirstStrictAlternation ==
  /\ [](\A k \in 1..Len(game.history) :
          game.history[k][1] = IF k % 2 = 1 THEN "black" ELSE "white")
  /\ [](game.winner = None =>
          game.current_player
            = IF Len(game.history) % 2 = 0 THEN "black" ELSE "white")
  /\ [][(pc = "playing" /\ invocations' # invocations) =>
          /\ invoked' = players[game.current_player]
          /\ Len(game'.history) > Len(game.history) =>
               players[last_entry(game')[1]] = invoked']_vars

\* player1 plays white and has just placed the fourth stone of the match
C20_Witness ==
  /\ pc = "playing"
  /\ players.white = "player1"
  /\ invoked = "player1"
  /\ Len(game.history) = 4
  /\ last_entry(game)[1] = "white"

\* C21: a tournament loads each strategy once, before the first match: it
\* never makes more than 2 load operations, and has made exactly 2 when it
\* ends, whatever the number of rounds
C21_TwoLoadsPerTournament ==
  /\ module_counter <= 2
  /\ (pc = "exit" /\ args.player1.loads /\ args.player2.loads) =>
       module_counter = 2

\* C22: in a match of the evaluator against itself on an N x N board no
\* fault occurs (every call names an empty cell of the board, which is
\* accepted), at most N x N moves are made, and the match is reported as a
\* win of one player or as a draw
C22_EvaluatorMatchHasNoFault ==
  /\ [](/\ fault = None
        /\ pc # "crashed"
        /\ invocations <= max_moves(game)
        /\ Len(game.history) <= max_moves(game))
  /\ [](pc = "returned" =>
          /\ result.error = None
          /\ result.winner \in PlayerNames \cup {"draw"}
          /\ result.winner = "draw" <=> game.winner = None
          /\ game.winner = None => Len(game.history) = max_moves(game))
  /\ [][(pc = "playing" /\ invocations' # invocations) =>
          \E c \in AllCells(game.board_size) :
            /\ game.board[c[1]][c[2]] = 0
            /\ game' = apply_move(game, c[1], c[2])
            /\ move_count' = move_count + 1]_vars

\* a match of the evaluator against itself on the N x N board has ended
\* with a win
C22_Witness ==
  /\ pc = "returned"
  /\ args.player1.kind = "evaluator"
  /\ game.board_size = N
  /\ game.winner # None
  /\ result.winner = players[game.winner]

\* C23: an accepted move hands the turn over exactly when the game is still
\* open afterwards: not after a winning move, and not after a move that
\* fills the board without winning
C23_TurnFlipsOnlyWhileOngoing ==
  [][(last_call'.called /\ last_call'.ok) =>
       (game'.current_player # game.current_player
          <=> (game'.winner = None /\ ~is_full(game')))]_vars

\* the open game on the given board in which `color` is to move
game_on(board, color) ==
  [board_size     |-> Cardinality(DOMAIN board),
   board          |-> board,
   current_player |-> color,
   winner         |-> None,
   history        |-> <<>>]

\* C24: for every board, empty cell and colour, is_winning_move is true
\* exactly when the engine's make_move of that colour on that cell sets the
\* winner; so the cell the evaluator's win search returns wins when played
C24_EvaluatorWinTestIsEngineRule ==
  LET b == evaluated.board
  IN  /\ \A col \in Colors : \A c \in empty_cells(b, N) :
           is_winning_move(b, c[1], c[2], stone_of(col), N)
             <=> (/\ make_move(game_on(b, col), c[1], c[2]).ok
                  /\ make_move(game_on(b, col), c[1], c[2]).game.winner = col)
      /\ \A c \in find_winning_move(b, stone_of(evaluated.color), N) :
           make_move(game_on(b, evaluated.color), c[1], c[2]).game.winner
             = evaluated.color

\* a board on which one empty cell wins for the evaluator and another
\* would give the opponent a run of six, which neither test counts as a win
C24_Witness ==
  LET b   == evaluated.board
      own == stone_of(evaluated.color)
      opp == other_color(evaluated.color)
  IN  /\ evaluated.called
      /\ is_winning_move(b, evaluated.move[1], evaluated.move[2], own, N)
      /\ \E c \in empty_cells(b, N) :
           /\ makes_run(b, N, c, stone_of(opp), 6)
           /\ ~is_winning_move(b, c[1], c[2], stone_of(opp), N)
           /\ make_move(game_on(b, opp), c[1], c[2]).ok
           /\ make_move(game_on(b, opp), c[1], c[2]).game.winner = None

\* the opponent stones that lie in an unbroken row right next to cell c
\* along direction d, on both sides of c together
opp_chain(board, n, c, d, opp_stone) ==
  stones_from(board, n, c[1] + d[1], c[2] + d[2], d[1], d[2], opp_stone)
    + stones_from(board, n, c[1] - d[1], c[2] - d[2], 0 - d[1], 0 - d[2],
                  opp_stone)

\* C25: the defensive bonus an empty cell receives for an axis follows the
\* length of the opponent chain next to it on that axis: 5000 for a chain
\* of 4 or more, 500 or 50 for a chain of three, and nothing above 25 for a
\* shorter one
C25_DefensiveBonusFollowsOpponentChain ==
  LET b   == evaluated.board
      own == stone_of(evaluated.color)
      opp == stone_of(other_color(evaluated.color))
  IN  \A c \in empty_cells(b, N) : \A d \in directions :
        LET chain == opp_chain(b, N, c, d, opp)
            bonus == opp_line_score(count_line(b, c[1], c[2], d[1], d[2],
                                               own, opp, N))
        IN  /\ chain >= 4 => bonus = 5000
            /\ chain = 3 => bonus \in {500, 50}
            /\ chain <= 2 => bonus \in {25, 0}

\* the empty cells with a stone at most two rows and two columns away
eligible_cells(board, n) ==
  {c \in empty_cells(board, n) :
     \E q \in ((c[1] - 2)..(c[1] + 2)) \X ((c[2] - 2)..(c[2] + 2)) :
       on_grid(n, q) /\ q # c /\ board[q[1]][q[2]] # 0}

\* the eligible cells no other eligible cell outscores
top_scored(board, n, color) ==
  LET E     == eligible_cells(board, n)
      score == [c \in E |->
                  evaluate_position(board, c[1], c[2], stone_of(color),
                                    stone_of(other_color(color)), n)]
      top   == CHOOSE v \in {score[c] : c \in E} : \A c \in E : score[c] <= v
  IN  {c \in E : score[c] = top}

\* neither search of get_move finds a cell that wins at once, and some
\* empty cell is eligible
scoring_decides(board, n, color) ==
  /\ find_winning_move(board, stone_of(color), n) = {}
  /\ find_winning_move(board, stone_of(other_color(color)), n) = {}
  /\ eligible_cells(board, n) # {}

\* C26: when there is no immediate win or block and some empty cell has a
\* stone within the neighbourhood radius, the cell returned is an eligible
\* cell with the maximum score over the eligible cells, and every eligible
\* cell with that score can be returned
C26_ReturnsAnyTopScoredEligibleCell ==
  LET b == evaluated.board
  IN  (evaluated.called /\ scoring_decides(b, N, evaluated.color)) =>
        /\ evaluated.move \in top_scored(b, N, evaluated.color)
        /\ evaluated.choices = top_scored(b, N, evaluated.color)

\* the scoring decided between several cells of equal score, and the cell
\* returned is not the first of them; other empty cells were not eligible
\* or scored less
C26_Witness ==
  LET b   == evaluated.board
      top == top_scored(b, N, evaluated.color)
  IN  /\ evaluated.called
      /\ scoring_decides(b, N, evaluated.color)
      /\ Cardinality(top) >= 2
      /\ evaluated.move \in top
      /\ evaluated.move # first_in_scan(top)
      /\ eligible_cells(b, N) \ top # {}
      /\ empty_cells(b, N) \ eligible_cells(b, N) # {}

\* C27: when no empty cell has a stone within the neighbourhood radius, as
\* on the empty board, get_move returns the centre cell if it is empty and
\* otherwise some empty cell; it names an occupied cell, the placeholder
\* (0, 0), only when the board has no empty cell
C27_FallbackPrefersCentre ==
  LET b      == evaluated.board
      center == <<N \div 2, N \div 2>>
      m      == evaluated.move
  IN  evaluated.called =>
        /\ eligible_cells(b, N) = {} =>
             IF b[center[1]][center[2]] = 0 THEN m = center
             ELSE IF empty_cells(b, N) # {} THEN m \in empty_cells(b, N)
             ELSE m = <<0, 0>>
        /\ b[m[1]][m[2]] # 0 => (empty_cells(b, N) = {} /\ m = <<0, 0>>)

\* get_move was called on the empty board and returned the centre
C27_Witness ==
  /\ evaluated.called
  /\ empty_cells(evaluated.board, N) = AllCells(N)
  /\ evaluated.move = <<N \div 2, N \div 2>>
  /\ evaluated.choices = {evaluated.move}

\* C28: the three counters move only when main takes the result of a match
\* that has returned, by one on exactly the counter named by the result's
\* winner, which is player1, player2 or draw; after i rounds they sum to i.
total_score(sc) == sc.player1 + sc.player2 + sc.draw

C28_OneCounterPerFinishedMatch ==
  /\ [](total_score(scores) = i)
  /\ [](pc = "returned" => result.winner \in PlayerNames \cup {"draw"})
  /\ [][pc = "returned" =>
          /\ i' = i + 1
          /\ scores' = [scores EXCEPT ![result.winner] = @ + 1]]_vars
  /\ [][pc # "returned" => scores' = scores]_vars

C28_Witness ==
  /\ pc = "exit"
  /\ i = MaxRounds
  /\ scores.draw >= 1
  /\ scores.player1 + scores.player2 >= 1

\* C29: a match that starts has one of player1, player2 on black and the
\* other on white, either of the two assignments can be drawn, and a match
\* that ends by a win without a fault reports the player bound to the colour
\* in the game's winner field.
match_can_start ==
  pc = "main" /\ i < args.rounds /\ load_players(args).ok

C29_ColoursSplitAndWinnerIsColourHolder ==
  /\ (pc = "playing" \/ (pc = "returned" /\ result.has_players)) =>
        /\ players.black \in PlayerNames
        /\ players.white \in PlayerNames
        /\ players.black # players.white
  /\ match_can_start =>
        \A first \in PlayerNames :
          ENABLED (run_game_start /\ players'.black = first)
  /\ (pc = "returned" /\ result.error = None /\ result.winner # "draw") =>
        /\ game.winner \in {"black", "white"}
        /\ result.winner = players[game.winner]
        /\ result.players = players

C29_Witness ==
  /\ pc = "returned"
  /\ result.error = None
  /\ game.winner = "white"
  /\ players.white = "player1"
  /\ result.winner = "player1"

\* C30: while the game has no winner, no stone of the board lies in a
\* contiguous same-colour run of exactly 5 along any of the four axes; a run
\* of 6 or more can be on the board of a game that is still open.
run_of(g, len) ==
  \E c \in AllCells(g.board_size) : \E d \in directions :
    /\ g.board[c[1]][c[2]] # 0
    /\ run_length(g, c[1], c[2], d, g.board[c[1]][c[2]]) = len

C30_NoExactFiveWithoutWinner ==
  game.winner = None => ~run_of(game, WinLen)

C30_Witness ==
  /\ game.winner = None
  /\ last_call.called /\ last_call.ok
  /\ run_of(game, WinLen + 1)
  /\ ~run_of(game, WinLen)

\* C31: in the replay page, whatever buttons, keys, move-list items and
\* timer ticks came before, the board shown while the counter reads
\* "Move k" carries the stones of the first k moves of the loaded game and
\* no others: none at Move 0, all of them at the last index.
first_moves_board(g, k) ==
  [c \in 0..(g.board_size * g.board_size - 1) |->
     LET on_c == SelectSeq(SubSeq(g.moves, 1, k),
                           LAMBDA m : m.x * g.board_size + m.y = c)
     IN  [j \in 1..Len(on_c) |-> on_c[j].player]]

C31_BoardShowsFirstKMoves ==
  ~viewer.currentGame.is_null =>
    /\ viewer.move_counter = viewer.currentMoveIndex
    /\ viewer.cells = first_moves_board(viewer.currentGame, viewer.move_counter)

====
